---- MODULE Spec2Model ----
(***************************************************************************)
(* View components of the customer-support web site:                       *)
(*   - ProductListSection (search box, category filter, pagination links,  *)
(*     query-string construction),                                         *)
(*   - NewsDetails (description fallback, year selection),                 *)
(*   - AboutUsStickyScroll (scroll progress -> active card).               *)
(* A string is a sequence of one-character strings.  An optional value is  *)
(* a set with at most one element: {} is undefined/null, {v} is v.         *)
(***************************************************************************)
EXTENDS Integers, Sequences, FiniteSets, TLC

VARIABLES
  products,          \* ProductListSection prop: number of products in the list
  searchQuery,       \* ProductListSection prop
  filterCategory,    \* ProductListSection prop
  searchParams,      \* useSearchParams(): list of <<name, value>> of the current URL
  localSearchQuery,  \* useState(searchQuery): the text in the search box
  effectDep,         \* dependency [searchQuery] of the last run of the sync effect
  pushed,            \* router.push / link: the URL of the navigation in flight, {} when none
  route,             \* the page shown: "products", "about" or "news"
  content,           \* AboutUsStickyScroll prop: number of content blocks
  activeCard,        \* AboutUsStickyScroll useState(0)
  latest,            \* scrollYProgress, in units of 1/Den
  sticky,            \* "mounted", or "crashed" once a render has thrown
  event,             \* the last event of AboutUsStickyScroll
  description,       \* NewsDetails: news.description
  currentYear        \* NewsDetails: new Date().getFullYear() at render

vars == <<products, searchQuery, filterCategory, searchParams, localSearchQuery,
          effectDep, pushed, route, content, activeCard, latest, sticky, event,
          description, currentYear>>

productVars == <<products, searchQuery, filterCategory, searchParams,
                 localSearchQuery, effectDep>>
stickyVars == <<content, activeCard, latest, sticky, event>>
newsVars == <<description, currentYear>>

(***************************************************************************)
(* Bounds                                                                  *)
(***************************************************************************)
MaxLen == 2        \* longest text typed into the search box
MaxPage == 2       \* highest page number of a pagination link
MaxProducts == 2   \* longest products list
MaxCards == 4      \* longest content list
Resolution == 1    \* scroll progress is observed in steps of 1/(12 * Resolution)
YearSpan == 2      \* the clock shows FirstYear .. FirstYear + YearSpan

FirstYear == 2024
Den == 12 * Resolution
YearCount == 5

Chars == {" ", "&"}
Strs == UNION {[1..n -> Chars] : n \in 0..MaxLen}

(***************************************************************************)
(* Strings                                                                 *)
(***************************************************************************)
IsSpace(c) == c = " "

RECURSIVE TrimStart(_)
TrimStart(s) ==
  IF s = <<>> THEN s
  ELSE IF IsSpace(Head(s)) THEN TrimStart(Tail(s)) ELSE s

RECURSIVE TrimEnd(_)
TrimEnd(s) ==
  IF s = <<>> THEN s
  ELSE IF IsSpace(s[Len(s)]) THEN TrimEnd(SubSeq(s, 1, Len(s) - 1)) ELSE s

\* trim left out: the text as typed
trim_none(s) == s

\* String.prototype.trim
trim(s) == TrimEnd(TrimStart(s))

Digit(d) == CASE d = 0 -> "0" [] d = 1 -> "1" [] d = 2 -> "2" [] d = 3 -> "3"
              [] d = 4 -> "4" [] d = 5 -> "5" [] d = 6 -> "6" [] d = 7 -> "7"
              [] d = 8 -> "8" [] d = 9 -> "9"

\* Number.prototype.toString of a natural number
RECURSIVE toString(_)
toString(n) ==
  IF n < 10 THEN <<Digit(n)>> ELSE toString(n \div 10) \o <<Digit(n % 10)>>

\* the position of the first c in s at or after position i, 0 when none
RECURSIVE IndexOf(_, _, _)
IndexOf(s, c, i) ==
  IF i > Len(s) THEN 0 ELSE IF s[i] = c THEN i ELSE IndexOf(s, c, i + 1)

\* the pieces of s between occurrences of the character c
RECURSIVE Split(_, _)
Split(s, c) ==
  LET i == IndexOf(s, c, 1)
  IN IF i = 0 THEN <<s>>
     ELSE <<SubSeq(s, 1, i - 1)>> \o Split(SubSeq(s, i + 1, Len(s)), c)

(***************************************************************************)
(* URLSearchParams (application/x-www-form-urlencoded)                     *)
(***************************************************************************)
\* the characters the serializer writes as a percent code
Coded == {"&", "=", "+", "%", "?"}

PercentCode(c) == CASE c = "&" -> <<"%", "2", "6">>
                    [] c = "=" -> <<"%", "3", "D">>
                    [] c = "+" -> <<"%", "2", "B">>
                    [] c = "%" -> <<"%", "2", "5">>
                    [] c = "?" -> <<"%", "3", "F">>

\* a space becomes "+", letters, digits and "-" stay, the rest is percent-coded
EncodeChar(c) ==
  IF c = " " THEN <<"+">>
  ELSE IF c \in Coded THEN PercentCode(c)
  ELSE <<c>>

\* nothing is encoded
Encode_none(s) == s

RECURSIVE Encode(_)
Encode(s) == IF s = <<>> THEN <<>> ELSE EncodeChar(Head(s)) \o Encode(Tail(s))

\* the character a percent code stands for, {} when it is not a code
Decoded(code) ==
  IF code = <<"%", "2", "0">> THEN {" "}
  ELSE {c \in Coded : PercentCode(c) = code}

RECURSIVE Decode(_)
Decode(s) ==
  IF s = <<>> THEN <<>>
  ELSE IF Head(s) = "+" THEN <<" ">> \o Decode(Tail(s))
  ELSE IF Head(s) = "%" /\ Len(s) >= 3 /\ Decoded(SubSeq(s, 1, 3)) # {}
       THEN <<CHOOSE c \in Decoded(SubSeq(s, 1, 3)) : TRUE>>
              \o Decode(SubSeq(s, 4, Len(s)))
  ELSE <<Head(s)>> \o Decode(Tail(s))

\* one name=value piece of a query string
ParsePair(piece) ==
  LET i == IndexOf(piece, "=", 1)
  IN IF i = 0 THEN <<Decode(piece), <<>>>>
     ELSE <<Decode(SubSeq(piece, 1, i - 1)), Decode(SubSeq(piece, i + 1, Len(piece)))>>

\* the pairs of the non-empty pieces
RECURSIVE ParsePieces(_)
ParsePieces(pieces) ==
  IF pieces = <<>> THEN <<>>
  ELSE IF Head(pieces) = <<>> THEN ParsePieces(Tail(pieces))
  ELSE <<ParsePair(Head(pieces))>> \o ParsePieces(Tail(pieces))

\* new URLSearchParams(string)
URLSearchParams(str) == ParsePieces(Split(str, "&"))

\* URLSearchParams.prototype.toString
RECURSIVE ParamsToString(_)
ParamsToString(params) ==
  IF params = <<>> THEN <<>>
  ELSE Encode(Head(params)[1]) \o <<"=">> \o Encode(Head(params)[2])
         \o (IF Len(params) = 1 THEN <<>> ELSE <<"&">> \o ParamsToString(Tail(params)))

\* the position of the first pair of that name at or after position i, 0 when none
RECURSIVE IndexOfName(_, _, _)
IndexOfName(params, name, i) ==
  IF i > Len(params) THEN 0
  ELSE IF params[i][1] = name THEN i ELSE IndexOfName(params, name, i + 1)

\* URLSearchParams.prototype.get: the first value, {} when there is none
Get(params, name) ==
  LET i == IndexOfName(params, name, 1)
  IN IF i = 0 THEN {} ELSE {params[i][2]}

\* nothing is deleted
Delete_none(params, name) == params

\* URLSearchParams.prototype.delete
Delete(params, name) == SelectSeq(params, LAMBDA p : p[1] # name)

\* URLSearchParams.prototype.set: the first pair of that name takes the value,
\* the others of that name go; appended when there is none
Set(params, name, value) ==
  LET i == IndexOfName(params, name, 1)
  IN IF i = 0 THEN Append(params, <<name, value>>)
     ELSE SubSeq(params, 1, i - 1) \o <<<<name, value>>>>
            \o Delete(SubSeq(params, i + 1, Len(params)), name)

K_page == <<"p", "a", "g", "e">>
K_search == <<"s", "e", "a", "r", "c", "h">>
K_category == <<"c", "a", "t", "e", "g", "o", "r", "y">>
K_year == <<"y", "e", "a", "r">>
K_sort == <<"s", "o", "r", "t">>

(***************************************************************************)
(* URLs handed to the router                                               *)
(***************************************************************************)
ProductsPath == <<"/", "p", "r", "o", "d", "u", "c", "t", "s">>
NewsPath == <<"/", "n", "e", "w", "s">>

\* the part of a URL before the first "?"
UrlPath(url) ==
  LET i == IndexOf(url, "?", 1)
  IN IF i = 0 THEN url ELSE SubSeq(url, 1, i - 1)

\* the query parameters of a URL: what follows the first "?"
UrlParams(url) ==
  LET i == IndexOf(url, "?", 1)
  IN IF i = 0 THEN <<>> ELSE URLSearchParams(SubSeq(url, i + 1, Len(url)))

\* a query parameter read as a string prop, "" when absent
ParamOrEmpty(params, name) ==
  IF Get(params, name) = {} THEN <<>> ELSE CHOOSE v \in Get(params, name) : TRUE

(***************************************************************************)
(* ProductListSection                                                      *)
(***************************************************************************)
Categories == {<<"A">>, <<"A", " ", "b">>}
Keys == {"Enter", "Escape", "a"}

Lower(c) == IF c = "A" THEN "a" ELSE c

\* slugify(category, { lower: true }) on names of letters and spaces
RECURSIVE Dashed(_)
Dashed(s) ==
  IF s = <<>> THEN <<>>
  ELSE IF IsSpace(Head(s))
       THEN <<"-">> \o Dashed(TrimStart(s))
       ELSE <<Lower(Head(s))>> \o Dashed(Tail(s))

slugify(s) == Dashed(trim(s))

\* params: [page |-> number, 0 when not passed; search, category |-> optional string]
buildQueryString(params) ==
  LET newParams == URLSearchParams(ParamsToString(searchParams))
      withPage ==
        IF params.page # 0
        THEN Set(newParams, K_page, toString(params.page))
        ELSE newParams
      withSearch ==
        IF params.search # {}
        THEN LET search == CHOOSE s \in params.search : TRUE
             IN IF trim(search) # <<>>
                THEN Set(withPage, K_search, trim(search))
                ELSE Delete(withPage, K_search)
        ELSE withPage
      withCategory ==
        IF params.category # {}
        THEN LET category == CHOOSE c \in params.category : TRUE
             IN IF category # <<>>
                THEN Set(withSearch, K_category, category)
                ELSE Delete(withSearch, K_category)
        ELSE withSearch
  IN ParamsToString(withCategory)

\* the search URL built without passing a page
searchUrl_keepsPage(query) ==
  ProductsPath \o <<"?">> \o
    buildQueryString([page |-> 0, search |-> {query}, category |-> {filterCategory}])

\* the URL handleSearch pushes
searchUrl(query) ==
  ProductsPath \o <<"?">> \o
    buildQueryString([page |-> 1, search |-> {query}, category |-> {filterCategory}])

\* the category URL built from the text of the search box instead of the prop
categoryUrl_boxText(category) ==
  ProductsPath \o <<"?">> \o
    buildQueryString([page |-> 1, search |-> {localSearchQuery},
                      category |-> {IF category # <<>> THEN slugify(category) ELSE <<>>}])

\* the URL handleCategoryFilter pushes
categoryUrl(category) ==
  ProductsPath \o <<"?">> \o
    buildQueryString([page |-> 1, search |-> {searchQuery},
                      category |-> {IF category # <<>> THEN slugify(category) ELSE <<>>}])

\* the link built from the text of the search box instead of the prop
getPaginationHref_boxText(page) ==
  ProductsPath \o <<"?">> \o
    buildQueryString([page |-> page, search |-> {localSearchQuery},
                      category |-> {filterCategory}])

getPaginationHref(page) ==
  ProductsPath \o <<"?">> \o
    buildQueryString([page |-> page, search |-> {searchQuery},
                      category |-> {filterCategory}])

\* useState(""): the box starts empty
initialLocalSearchQuery_empty(prop) == <<>>

\* useState(searchQuery): the state a mount starts with
initialLocalSearchQuery(prop) == prop

\* the pagination rendered outside the products.length > 0 branch
renderProducts_paginationAlways(n) ==
  IF n > 0
  THEN [message |-> FALSE, grid |-> TRUE, cards |-> n, pagination |-> TRUE]
  ELSE [message |-> TRUE, grid |-> FALSE, cards |-> 0, pagination |-> TRUE]

\* the outcome of the products.length > 0 branch of the render
renderProducts(n) ==
  IF n > 0
  THEN [message |-> FALSE, grid |-> TRUE, cards |-> n, pagination |-> TRUE]
  ELSE [message |-> TRUE, grid |-> FALSE, cards |-> 0, pagination |-> FALSE]

\* passive effects are flushed before the next event is handled
EffectsFlushed == effectDep = {searchQuery}

\* onChange of the search inputs
OnChange(text) ==
  /\ route = "products"
  /\ EffectsFlushed
  /\ localSearchQuery' = text
  /\ UNCHANGED <<products, searchQuery, filterCategory, searchParams, effectDep,
                 pushed, route, stickyVars, newsVars>>

handleSearch(query) ==
  /\ UNCHANGED <<productVars, route, stickyVars, newsVars>>
  /\ pushed' = {searchUrl(query)}

handleKeyDown(key) ==
  /\ route = "products"
  /\ EffectsFlushed
  /\ IF key = "Enter"
     THEN handleSearch(localSearchQuery)
     ELSE UNCHANGED vars

\* onClick of the search buttons
ClickSearch ==
  /\ route = "products"
  /\ EffectsFlushed
  /\ handleSearch(localSearchQuery)

handleCategoryFilter(category) ==
  /\ route = "products"
  /\ EffectsFlushed
  /\ UNCHANGED <<productVars, route, stickyVars, newsVars>>
  /\ pushed' = {categoryUrl(category)}

\* following the pagination link of a page
ClickPage(page) ==
  /\ route = "products"
  /\ EffectsFlushed
  /\ UNCHANGED <<productVars, route, stickyVars, newsVars>>
  /\ pushed' = {getPaginationHref(page)}

\* the navigation completes: the page reads the URL and renders the list with
\* the props taken from its parameters
ApplyUrl ==
  /\ route = "products"
  /\ pushed # {}
  /\ pushed' = {}
  /\ UNCHANGED <<localSearchQuery, effectDep, route, stickyVars, newsVars>>
  /\ products' \in 0..MaxProducts
  /\ LET url == CHOOSE u \in pushed : TRUE
     IN /\ UrlPath(url) = ProductsPath
        /\ searchParams' = UrlParams(url)
        /\ searchQuery' = ParamOrEmpty(UrlParams(url), K_search)
        /\ filterCategory' = ParamOrEmpty(UrlParams(url), K_category)

\* the effect runs but does not set the text
SyncEffect_keepsText ==
  /\ route = "products"
  /\ effectDep # {searchQuery}
  /\ effectDep' = {searchQuery}
  /\ UNCHANGED <<products, searchQuery, filterCategory, searchParams, pushed,
                 localSearchQuery, route, stickyVars, newsVars>>

\* useEffect(() => setLocalSearchQuery(searchQuery), [searchQuery])
SyncEffect ==
  /\ route = "products"
  /\ effectDep # {searchQuery}
  /\ localSearchQuery' = searchQuery
  /\ effectDep' = {searchQuery}
  /\ UNCHANGED <<products, searchQuery, filterCategory, searchParams, pushed,
                 route, stickyVars, newsVars>>

\* the component is unmounted and mounted again with the same props
ProductRemount ==
  /\ route = "products"
  /\ localSearchQuery' = initialLocalSearchQuery(searchQuery)
  /\ effectDep' = {}
  /\ UNCHANGED <<products, searchQuery, filterCategory, searchParams, pushed,
                 route, stickyVars, newsVars>>

InitQueries == {<<>>, <<" ", "&">>}
InitCategories == {<<>>, <<"a">>}
InitUrls ==
  { ProductsPath,
    ProductsPath \o <<"?">> \o K_page \o <<"=", "2", "&">> \o K_search
                 \o <<"=", "%", "2", "0", "%", "2", "6", "&">> \o K_sort
                 \o <<"=", "a", "&">> \o K_category \o <<"=", "a", "-", "b">> }

\* the state after the first render, the mount effect not yet run
ProductInit ==
  /\ products \in 0..MaxProducts
  /\ searchQuery \in InitQueries
  /\ filterCategory \in InitCategories
  /\ searchParams \in {UrlParams(u) : u \in InitUrls}
  /\ localSearchQuery = initialLocalSearchQuery(searchQuery)
  /\ effectDep = {}

ProductNext ==
  \/ \E text \in Strs : OnChange(text)
  \/ \E key \in Keys : handleKeyDown(key)
  \/ ClickSearch
  \/ \E category \in Categories \cup {<<>>} : handleCategoryFilter(category)
  \/ \E page \in 1..MaxPage : ClickPage(page)
  \/ ApplyUrl
  \/ SyncEffect
  \/ ProductRemount

(***************************************************************************)
(* AboutUsStickyScroll                                                     *)
(***************************************************************************)
Abs(x) == IF x < 0 THEN -x ELSE x

\* latest - index / cardLength without Math.abs
Distance_signed(p, index, cardLength) == p * cardLength - index * Den

\* Math.abs(latest - index / cardLength) for latest = p/Den, in units of
\* 1/(Den * cardLength)
Distance(p, index, cardLength) == Abs(p * cardLength - index * Den)

\* the comparison distance <= ... : the last of the equally near breakpoints wins
RECURSIVE Reduce_lastTie(_, _, _, _)
Reduce_lastTie(acc, index, p, cardLength) ==
  IF index >= cardLength THEN acc
  ELSE IF Distance(p, index, cardLength) <= Distance(p, acc, cardLength)
       THEN Reduce_lastTie(index, index + 1, p, cardLength)
       ELSE Reduce_lastTie(acc, index + 1, p, cardLength)

\* cardsBreakpoints.reduce(..., 0): the accumulator after the breakpoints
\* index, index + 1, ... have been visited
RECURSIVE Reduce(_, _, _, _)
Reduce(acc, index, p, cardLength) ==
  IF index >= cardLength THEN acc
  ELSE IF Distance(p, index, cardLength) < Distance(p, acc, cardLength)
       THEN Reduce(index, index + 1, p, cardLength)
       ELSE Reduce(acc, index + 1, p, cardLength)

closestBreakpointIndex(p, cardLength) == Reduce(0, 0, p, cardLength)

\* useState(0)
initialActiveCard == 0

\* the render reads content[activeCard].image: it throws when content has no
\* element at activeCard
renderSticky(card, cardLength) ==
  IF card < cardLength THEN "mounted" ELSE "crashed"

\* the "change" handler of scrollYProgress, and the render it causes
Scroll(p) ==
  /\ route = "about"
  /\ sticky = "mounted"
  /\ latest' = p
  /\ activeCard' = closestBreakpointIndex(p, content)
  /\ sticky' = renderSticky(activeCard', content)
  /\ event' = "scroll"
  /\ UNCHANGED <<content, pushed, route, productVars, newsVars>>

\* the parent passes a content list of another length; the state is kept
ContentChange(n) ==
  /\ route = "about"
  /\ sticky = "mounted"
  /\ n # content
  /\ content' = n
  /\ sticky' = renderSticky(activeCard, n)
  /\ event' = "content"
  /\ UNCHANGED <<activeCard, latest, pushed, route, productVars, newsVars>>

\* the first render with a content list
MountSticky(n) ==
  /\ content' = n
  /\ activeCard' = initialActiveCard
  /\ latest' = 0
  /\ sticky' = renderSticky(initialActiveCard, n)
  /\ event' = "mount"

\* the component is unmounted and mounted again with a content list
StickyRemount(n) ==
  /\ route = "about"
  /\ MountSticky(n)
  /\ UNCHANGED <<pushed, route, productVars, newsVars>>

StickyInit ==
  /\ content \in 0..MaxCards
  /\ activeCard = initialActiveCard
  /\ latest = 0
  /\ sticky = renderSticky(initialActiveCard, content)
  /\ event = "mount"

StickyNext ==
  \/ \E p \in 0..Den : Scroll(p)
  \/ \E n \in 0..MaxCards : ContentChange(n)
  \/ \E n \in 0..MaxCards : StickyRemount(n)

(***************************************************************************)
(* NewsDetails                                                             *)
(***************************************************************************)
Descriptions ==
  {[kind |-> "undefined", text |-> <<>>], [kind |-> "null", text |-> <<>>]}
    \cup {[kind |-> "string", text |-> t] : t \in Strs}

\* description != null in place of the truthiness
Truthy_notNullish(d) == d.kind = "string"

\* the truthiness of news.description
Truthy(d) == d.kind = "string" /\ d.text # <<>>

\* the description ? ... : ... branch of the render
renderDescription(d) ==
  IF Truthy(d)
  THEN [block |-> {d.text}, placeholder |-> FALSE]
  ELSE [block |-> {}, placeholder |-> TRUE]

\* the years counted upwards
yearList_ascending(year) == [k \in 1..YearCount |-> year + (k - 1)]

\* Array.from({ length: 5 }, (_, i) => new Date().getFullYear() - i)
yearList(year) == [k \in 1..YearCount |-> year - (k - 1)]

yearUrl(year) == NewsPath \o <<"?">> \o K_year \o <<"=">> \o year

\* onClick of the k-th year button: handleYearSelection(year.toString())
handleYearSelection(k) ==
  /\ route = "news"
  /\ pushed' = {yearUrl(toString(yearList(currentYear)[k]))}
  /\ UNCHANGED <<productVars, route, stickyVars, newsVars>>

\* the page renders another news item, or the same one in another year
NewsRender(d, year) ==
  /\ route = "news"
  /\ description' = d
  /\ currentYear' = year
  /\ pushed' = {}
  /\ UNCHANGED <<productVars, route, stickyVars>>

NewsInit ==
  /\ description \in Descriptions
  /\ currentYear \in FirstYear..(FirstYear + YearSpan)

NewsNext ==
  \/ \E k \in 1..YearCount : handleYearSelection(k)
  \/ \E d \in Descriptions, year \in FirstYear..(FirstYear + YearSpan) :
       NewsRender(d, year)

(***************************************************************************)
(* The site: one page is shown at a time; the components of the other      *)
(* pages are not mounted and their state is at its rest value              *)
(***************************************************************************)
ProductRest ==
  /\ products = 0
  /\ searchQuery = <<>>
  /\ filterCategory = <<>>
  /\ searchParams = <<>>
  /\ localSearchQuery = <<>>
  /\ effectDep = {}

StickyRest ==
  /\ content = 0
  /\ activeCard = 0
  /\ latest = 0
  /\ sticky = "unmounted"
  /\ event = "none"

NewsRest ==
  /\ description = [kind |-> "undefined", text |-> <<>>]
  /\ currentYear = FirstYear

MountProducts(n, query, category, params) ==
  /\ products' = n
  /\ searchQuery' = query
  /\ filterCategory' = category
  /\ searchParams' = params
  /\ localSearchQuery' = initialLocalSearchQuery(query)
  /\ effectDep' = {}

UnmountProducts ==
  /\ products' = 0
  /\ searchQuery' = <<>>
  /\ filterCategory' = <<>>
  /\ searchParams' = <<>>
  /\ localSearchQuery' = <<>>
  /\ effectDep' = {}

UnmountSticky ==
  /\ content' = 0
  /\ activeCard' = 0
  /\ latest' = 0
  /\ sticky' = "unmounted"
  /\ event' = "none"

UnmountNews ==
  /\ description' = [kind |-> "undefined", text |-> <<>>]
  /\ currentYear' = FirstYear

\* the visitor opens the product list
OpenProducts ==
  /\ route # "products"
  /\ route' = "products"
  /\ pushed' = {}
  /\ \E n \in 0..MaxProducts, query \in InitQueries, category \in InitCategories,
        url \in InitUrls : MountProducts(n, query, category, UrlParams(url))
  /\ UnmountSticky
  /\ UnmountNews

\* the visitor opens the about-us page
OpenAbout ==
  /\ route # "about"
  /\ route' = "about"
  /\ pushed' = {}
  /\ \E n \in 0..MaxCards : MountSticky(n)
  /\ UnmountProducts
  /\ UnmountNews

\* the visitor opens a news item
OpenNews ==
  /\ route # "news"
  /\ route' = "news"
  /\ pushed' = {}
  /\ \E d \in Descriptions, year \in FirstYear..(FirstYear + YearSpan) :
       description' = d /\ currentYear' = year
  /\ UnmountProducts
  /\ UnmountSticky

Init ==
  /\ pushed = {}
  /\ \/ route = "products" /\ ProductInit /\ StickyRest /\ NewsRest
     \/ route = "about" /\ StickyInit /\ ProductRest /\ NewsRest
     \/ route = "news" /\ NewsInit /\ ProductRest /\ StickyRest

Next ==
  \/ ProductNext
  \/ StickyNext
  \/ NewsNext
  \/ OpenProducts
  \/ OpenAbout
  \/ OpenNews

Spec == Init /\ [][Next]_vars

\* one page alone
ProductPageInit == Init /\ route = "products"
StickyPageInit == Init /\ route = "about"
NewsPageInit == Init /\ route = "news"

ProductSpec == ProductPageInit /\ [][ProductNext]_vars
StickySpec == StickyPageInit /\ [][StickyNext]_vars
NewsSpec == NewsPageInit /\ [][NewsNext]_vars

(***************************************************************************)
(* buildQueryString on its own: any page, search and category, each        *)
(* possibly not passed, over current URLs with repeated, valueless, empty  *)
(* and percent-coded parameters                                            *)
(***************************************************************************)
K_tag == <<"t", "a", "g">>
K_flag == <<"f", "l", "a", "g">>

QueryUrls ==
  InitUrls \cup
  { \* /products?sort=a+b&page=2&tag=%26&sort=c
    ProductsPath \o <<"?">> \o K_sort \o <<"=", "a", "+", "b", "&">> \o K_page
                 \o <<"=", "2", "&">> \o K_tag \o <<"=", "%", "2", "6", "&">>
                 \o K_sort \o <<"=", "c">>,
    \* /products?flag&page=2&page=1&search=+%26&category=&search=
    ProductsPath \o <<"?">> \o K_flag \o <<"&">> \o K_page \o <<"=", "2", "&">>
                 \o K_page \o <<"=", "1", "&">> \o K_search
                 \o <<"=", "+", "%", "2", "6", "&">> \o K_category \o <<"=", "&">>
                 \o K_search \o <<"=">> }

\* page: 0 stands for a page that is not passed or is 0
QueryPages == 0..MaxPage
\* {} stands for undefined
QuerySearches == {{}, {<<>>}, {<<" ", "&">>}}
QueryCategories == {{}, {<<>>}, {<<"a">>}}
QueryArgs == [page : QueryPages, search : QuerySearches, category : QueryCategories]

\* router.push(`/products?${buildQueryString(params)}`)
PushQuery(params) ==
  /\ route = "products"
  /\ UNCHANGED <<productVars, route, stickyVars, newsVars>>
  /\ pushed' = {ProductsPath \o <<"?">> \o buildQueryString(params)}

QueryInit ==
  /\ pushed = {}
  /\ route = "products"
  /\ products \in 0..MaxProducts
  /\ searchQuery \in InitQueries
  /\ filterCategory \in InitCategories
  /\ searchParams \in {UrlParams(u) : u \in QueryUrls}
  /\ localSearchQuery = initialLocalSearchQuery(searchQuery)
  /\ effectDep = {}
  /\ StickyRest
  /\ NewsRest

QueryNext == \E params \in QueryArgs : PushQuery(params)

QuerySpec == QueryInit /\ [][QueryNext]_vars

(***************************************************************************)
(* The URLs the list produces before the next navigation, over the current *)
(* URLs of QueryUrls                                                       *)
(***************************************************************************)
SubmitNext ==
  \/ \E text \in Strs : OnChange(text)
  \/ \E key \in Keys : handleKeyDown(key)
  \/ ClickSearch
  \/ \E category \in Categories \cup {<<>>} : handleCategoryFilter(category)
  \/ \E page \in 1..MaxPage : ClickPage(page)
  \/ SyncEffect

SubmitSpec == QueryInit /\ [][SubmitNext]_vars

(***************************************************************************)
(* Vocabulary of the properties                                            *)
(***************************************************************************)
\* r is q with its leading and trailing whitespace removed
IsStripped(q, r) ==
  \E i \in 1..(Len(q) + 1), j \in 0..Len(q) :
    /\ r = SubSeq(q, i, j)
    /\ \A k \in 1..(i - 1) : q[k] = " "
    /\ \A k \in (j + 1)..Len(q) : q[k] = " "
    /\ r # <<>> => r[1] # " " /\ r[Len(r)] # " "

Stripped(q) ==
  CHOOSE r \in {SubSeq(q, i, j) : i \in 1..(Len(q) + 1), j \in 0..Len(q)} :
    IsStripped(q, r)

\* a parameter that is absent when the text is empty
PresentUnlessEmpty(text) == IF text = <<>> THEN {} ELSE {text}

DigitValue(c) == CHOOSE d \in 0..9 : Digit(d) = c

\* the number a string of decimal digits denotes
RECURSIVE DigitsValue(_)
DigitsValue(s) ==
  IF s = <<>> THEN 0
  ELSE 10 * DigitsValue(SubSeq(s, 1, Len(s) - 1)) + DigitValue(s[Len(s)])

IsNumber(s) == s # <<>> /\ \A i \in 1..Len(s) : \E d \in 0..9 : Digit(d) = s[i]

\* the value of a parameter of a URL, {} when absent
Param(url, name) == Get(UrlParams(url), name)

(***************************************************************************)
(* C1: a submitted query whose trimmed form is non-empty pushes a          *)
(* /products URL whose search parameter is the query without leading and   *)
(* trailing whitespace; a key other than Enter pushes nothing.             *)
(* Enter and the search button both push searchUrl(localSearchQuery).      *)
(***************************************************************************)
C1_SearchPushesTrimmedQuery ==
  /\ [](route = "products" /\ ~IsStripped(localSearchQuery, <<>>) =>
          LET url == searchUrl(localSearchQuery)
          IN /\ UrlPath(url) = ProductsPath
             /\ \E v \in Param(url, K_search) : IsStripped(localSearchQuery, v))
  /\ [][(\E key \in Keys \ {"Enter"} : handleKeyDown(key)) => pushed' = pushed]_vars

\* a padded query has been submitted from a list without a search
C1_Witness ==
  /\ route = "products"
  /\ searchQuery = <<>>
  /\ localSearchQuery = <<" ", "&">>
  /\ \E url \in pushed : Param(url, K_search) = {<<"&">>}

\* the search parameter of the current URL, "" when absent
UrlSearch == ParamOrEmpty(searchParams, K_search)

PageLinkCarries(p, search, category) ==
  LET url == getPaginationHref(p)
  IN /\ UrlPath(url) = ProductsPath
     /\ \E v \in Param(url, K_page) : IsNumber(v) /\ DigitsValue(v) = p
     /\ Param(url, K_search) = PresentUnlessEmpty(search)
     /\ Param(url, K_category) = PresentUnlessEmpty(category)

(***************************************************************************)
(* C3 as stated: the pagination link of page p carries page = p, search =  *)
(* searchQuery and category = filterCategory, each absent when empty.      *)
(***************************************************************************)
C3_PageLinkCarriesProps ==
  route = "products" =>
    \A p \in 1..MaxPage : PageLinkCarries(p, searchQuery, filterCategory)

(***************************************************************************)
(* C3 amended: the pagination link of page p carries page = p, search =    *)
(* searchQuery without leading and trailing whitespace (absent when that   *)
(* is empty) and category = filterCategory (absent when empty).            *)
(***************************************************************************)
C3_PageLinkCarriesTrimmedSearch ==
  route = "products" =>
    \A p \in 1..MaxPage : PageLinkCarries(p, Stripped(searchQuery), filterCategory)

\* the link of page 2 of a searched and filtered list has been followed
C3_Witness ==
  /\ route = "products"
  /\ searchQuery = <<" ", "&">>
  /\ filterCategory # <<>>
  /\ pushed = {getPaginationHref(2)}
  /\ Param(getPaginationHref(2), K_search) = {<<"&">>}

(***************************************************************************)
(* C4: an empty products list renders the message and neither grid nor     *)
(* pagination; a non-empty list renders the grid with one card per         *)
(* product and the pagination, and not the message.                        *)
(***************************************************************************)
C4_ListOrMessage ==
  route = "products" =>
    LET r == renderProducts(products)
    IN IF products = 0
       THEN r.message /\ ~r.grid /\ r.cards = 0 /\ ~r.pagination
       ELSE ~r.message /\ r.grid /\ r.cards = products /\ r.pagination

\* a search that found nothing
C4_Witness ==
  /\ route = "products"
  /\ products = 0
  /\ pushed = {}
  /\ Get(searchParams, K_search) = {<<"&", "&">>}
  /\ renderProducts(products).message

(***************************************************************************)
(* C5: an absent description (undefined, null or empty) renders the        *)
(* placeholder and no description block; any other description renders     *)
(* its content and not the placeholder.                                    *)
(***************************************************************************)
C5_DescriptionOrPlaceholder ==
  route = "news" =>
    LET r == renderDescription(description)
    IN IF description.kind \in {"undefined", "null"} \/ description.text = <<>>
       THEN r.placeholder /\ r.block = {}
       ELSE ~r.placeholder /\ r.block = {description.text}

\* the empty string is shown as the placeholder
C5_Witness ==
  /\ route = "news"
  /\ description = [kind |-> "string", text |-> <<>>]
  /\ renderDescription(description).placeholder

\* |p/Den - i/n| in units of 1/(Den * n)
Gap(i) == IF latest * content >= i * Den
          THEN latest * content - i * Den
          ELSE i * Den - latest * content

C7_RemountResets ==
  [][ /\ (ProductRemount \/ OpenProducts) => localSearchQuery' = searchQuery'
      /\ ((\E n \in 0..MaxCards : StickyRemount(n)) \/ OpenAbout) => activeCard' = 0
    ]_vars

\* a list remounted while a navigation is in flight, its effect not yet run
C7_Witness ==
  /\ route = "products"
  /\ effectDep = {}
  /\ pushed # {}
  /\ searchQuery # <<>>
  /\ localSearchQuery = searchQuery

(***************************************************************************)
(* C8: the year selection offers currentYear, currentYear - 1, ...,        *)
(* currentYear - 4 in this order, and clicking a year pushes /news with    *)
(* the single parameter year equal to the clicked year.                    *)
(***************************************************************************)
C8_YearSelection ==
  /\ [](route = "news" =>
          /\ DOMAIN yearList(currentYear) = 1..5
          /\ \A k \in 1..5 : yearList(currentYear)[k] = currentYear - k + 1)
  /\ [][ \A k \in 1..5 :
           handleYearSelection(k) =>
             \E url \in pushed' :
               /\ pushed' = {url}
               /\ UrlPath(url) = NewsPath
               /\ Len(UrlParams(url)) = 1
               /\ UrlParams(url)[1][1] = K_year
               /\ IsNumber(UrlParams(url)[1][2])
               /\ DigitsValue(UrlParams(url)[1][2]) = currentYear - k + 1
       ]_vars

\* the oldest of the five years has been clicked
C8_Witness ==
  /\ route = "news"
  /\ \E url \in pushed :
       /\ UrlPath(url) = NewsPath
       /\ \E v \in Param(url, K_year) : DigitsValue(v) = currentYear - 4

(***************************************************************************)
(* C9: whenever AboutUsStickyScroll renders, activeCard is an index of     *)
(* content.                                                                *)
(***************************************************************************)
C9_ActiveCardInRange ==
  route = "about" => 0 <= activeCard /\ activeCard < content

\* what the URLs of a search submission and of a category selection carry
OtherDimensionKept(search) ==
  route = "products" =>
    /\ Param(searchUrl(localSearchQuery), K_category) = PresentUnlessEmpty(filterCategory)
    /\ \A category \in Categories \cup {<<>>} :
         Param(categoryUrl(category), K_search) = PresentUnlessEmpty(search)

(***************************************************************************)
(* C10 as stated: the URL a search submission pushes carries category =    *)
(* filterCategory, the URL a category selection pushes carries search =    *)
(* searchQuery, each absent when empty.                                    *)
(***************************************************************************)
C10_OtherDimensionKept == OtherDimensionKept(searchQuery)

(***************************************************************************)
(* C10 amended: the URL a search submission pushes carries category =      *)
(* filterCategory (absent when empty); the URL a category selection pushes *)
(* carries search = searchQuery without leading and trailing whitespace    *)
(* (absent when that is empty), never the text of the search box.          *)
(***************************************************************************)
C10_OtherDimensionKeptTrimmed == OtherDimensionKept(Stripped(searchQuery))

\* a category has been selected while the box holds text not yet submitted
C10_Witness ==
  /\ route = "products"
  /\ searchQuery = <<" ", "&">>
  /\ localSearchQuery = <<"&", "&">>
  /\ \E url \in pushed :
       /\ Param(url, K_search) = {<<"&">>}
       /\ Param(url, K_category) = {<<"a", "-", "b">>}

\* the values of the parameters of that name in a URL, in order
ParamValues(url, name) ==
  LET named == SelectSeq(UrlParams(url), LAMBDA pair : pair[1] = name)
  IN [i \in 1..Len(named) |-> named[i][2]]

(***************************************************************************)
(* C11: the URL a search submission pushes and the URL a category          *)
(* selection pushes carry exactly one page parameter, of value 1, whatever *)
(* the page of the current URL and whether or not the submitted query or   *)
(* the selected category is the current one.                               *)
(***************************************************************************)
C11_SubmissionResetsPage ==
  route = "products" =>
    /\ ParamValues(searchUrl(localSearchQuery), K_page) = <<toString(1)>>
    /\ \A category \in Categories \cup {<<>>} :
         ParamValues(categoryUrl(category), K_page) = <<toString(1)>>

\* the query of a list on page 2 has been submitted again, unchanged
C11_Witness ==
  /\ route = "products"
  /\ Get(searchParams, K_page) = {toString(2)}
  /\ Get(searchParams, K_search) = {<<"&">>}
  /\ searchQuery = <<"&">>
  /\ localSearchQuery = searchQuery
  /\ pushed = {searchUrl(localSearchQuery)}
  /\ \E url \in pushed : Param(url, K_page) = {toString(1)}

\* the pairs of params whose name is in names, in order
Named(params, names) == SelectSeq(params, LAMBDA pair : pair[1] \in names)

\* the pairs of params whose name is not in names, in order
NotNamed(params, names) == SelectSeq(params, LAMBDA pair : pair[1] \notin names)

\* the parameters of the query string built from params
Built(params) == URLSearchParams(buildQueryString(params))

(***************************************************************************)
(* C12: buildQueryString changes only the parameters it is given: the      *)
(* parameters of the current URL other than page, search and category are  *)
(* in the result with the same values; the page parameters are those of    *)
(* the current URL when no page (or page 0) is passed, the search and the  *)
(* category parameters are those of the current URL when the argument is   *)
(* undefined.                                                              *)
(***************************************************************************)
C12_BuildChangesOnlyGiven ==
  route = "products" =>
    \A params \in QueryArgs :
      /\ NotNamed(Built(params), {K_page, K_search, K_category})
           = NotNamed(searchParams, {K_page, K_search, K_category})
      /\ params.page = 0 =>
           Named(Built(params), {K_page}) = Named(searchParams, {K_page})
      /\ params.search = {} =>
           Named(Built(params), {K_search}) = Named(searchParams, {K_search})
      /\ params.category = {} =>
           Named(Built(params), {K_category}) = Named(searchParams, {K_category})

\* a category alone has been passed over a URL with a repeated parameter, a
\* percent-coded value and a page
C12_Witness ==
  /\ route = "products"
  /\ Named(searchParams, {K_sort, K_tag})
       = << <<K_sort, <<"a", " ", "b">>>>, <<K_tag, <<"&">>>>, <<K_sort, <<"c">>>> >>
  /\ Get(searchParams, K_page) = {toString(2)}
  /\ Get(searchParams, K_category) = {}
  /\ \E url \in pushed :
       /\ url = ProductsPath \o <<"?">> \o
                  buildQueryString([page |-> 0, search |-> {}, category |-> {<<"a">>}])
       /\ Named(UrlParams(url), {K_sort, K_tag}) = Named(searchParams, {K_sort, K_tag})
       /\ Param(url, K_page) = {toString(2)}
       /\ Param(url, K_category) = {<<"a">>}

\* the URLs the list can produce in the current state
ProducedUrls ==
  {searchUrl(localSearchQuery)}
    \cup {categoryUrl(category) : category \in Categories \cup {<<>>}}
    \cup {getPaginationHref(page) : page \in 1..MaxPage}

\* no search or category parameter of the URL is empty, no search parameter
\* starts or ends with whitespace
NoEmptyFilter(url) ==
  \A i \in 1..Len(UrlParams(url)) :
    LET pair == UrlParams(url)[i]
    IN /\ pair[1] = K_search =>
            pair[2] # <<>> /\ ~IsSpace(pair[2][1]) /\ ~IsSpace(pair[2][Len(pair[2])])
       /\ pair[1] = K_category => pair[2] # <<>>

(***************************************************************************)
(* C13: no URL the list produces (search submission, category selection,   *)
(* pagination link) carries an empty search or category parameter or a     *)
(* search parameter with leading or trailing whitespace; submitting an     *)
(* empty or whitespace-only query leaves no search parameter, selecting    *)
(* Show All leaves no category parameter.                                  *)
(***************************************************************************)
C13_NoEmptyFilter ==
  route = "products" =>
    /\ \A url \in ProducedUrls : NoEmptyFilter(url)
    /\ IsStripped(localSearchQuery, <<>>) =>
         Param(searchUrl(localSearchQuery), K_search) = {}
    /\ Param(categoryUrl(<<>>), K_category) = {}

\* a whitespace-only query has been submitted from an unfiltered list whose
\* URL has search parameters and an empty category parameter
C13_Witness ==
  /\ route = "products"
  /\ localSearchQuery = <<" ">>
  /\ filterCategory = <<>>
  /\ Len(Named(searchParams, {K_search})) = 2
  /\ Get(searchParams, K_category) = {<<>>}
  /\ pushed = {searchUrl(localSearchQuery)}
  /\ \E url \in pushed : Named(UrlParams(url), {K_search, K_category}) = <<>>

(***************************************************************************)
(* C14: over a content list of n >= 1 items the active index is a monotone *)
(* function of the scroll progress in [0, 1] and takes every value of      *)
(* 0..n-1: a scroll event to a progress not below the progress of the      *)
(* previous scroll event gives an active index not below the previous one, *)
(* progress 0 gives index 0, progress 1 gives index n-1, and every index   *)
(* is the active index of some progress.                                   *)
(***************************************************************************)
C14_ActiveCardMonotoneOnto ==
  /\ []( (route = "about" /\ event = "scroll" /\ content >= 1) =>
           /\ latest = 0 => activeCard = 0
           /\ latest = Den => activeCard = content - 1
           /\ \A i \in 0..(content - 1) :
                \E p \in 0..Den : closestBreakpointIndex(p, content) = i )
  /\ [][ ( /\ \E p \in 0..Den : Scroll(p)
           /\ event = "scroll"
           /\ content >= 1
           /\ latest <= latest' )
         => activeCard <= activeCard' ]_vars

\* the longest list has been scrolled from its start to its end
C14_Witness ==
  /\ route = "about"
  /\ event = "scroll"
  /\ content = MaxCards
  /\ latest = Den
  /\ activeCard = MaxCards - 1

====
